---- MODULE Spec2Model ----
(***************************************************************************)
(* A model of the wu-manber crate (src/src/lib.rs): the two-byte-wide      *)
(* Wu-Manber table TwoByteWM (new), the single search find_from, and the   *)
(* iterator Matches returned by find.                                      *)
(*                                                                         *)
(* Indices are 0-based as in the source; a TLA+ sequence s holds the       *)
(* source's s[i] at s[i + 1] (operator At).  The tables shift and hash are *)
(* functions on 0..HASH_MAX and 0..HASH_MAX+1.                             *)
(***************************************************************************)
EXTENDS Integers, Sequences, FiniteSets, TLC

\* ------------------------------------------------------------------ bounds

\* The byte values the needles and haystacks are drawn from (u8 in the source).
\* hash_fn is one-to-one on the pairs of these bytes: two pairs share a hash
\* only when a second byte is 32 or more, and a byte of 32 makes the tables
\* 1058 entries long.
Bytes == {0, 1}

\* The largest modelled byte: stands for u8::MAX (0xFF) in HASH_MAX.
ByteMax == CHOOSE b \in Bytes : \A c \in Bytes : c <= b

\* The longest needle, the most bytes in all the needles of one set together,
\* and the longest haystack that Init draws.
MaxNeedleLen == 3
MaxNeedleBytes == 5
MaxHayLen == 4

\* ------------------------------------------------------- program constants

\* NeedleIdx::max_value() and NByteIdx::max_value(): both types are u16.
NeedleIdxMax == 65535
NByteIdxMax == 65535

\* u16 arithmetic wraps at 2^16.
U16Mod == 65536

\* const HASH_MAX: usize = (0xFFusize << 5) + 0xFF, with 0xFF the largest byte.
HASH_MAX == (ByteMax * 32) + ByteMax

\* ------------------------------------------------------------------ helpers

\* s[i] of the source, for a Vec or slice s held as a sequence.
At(s, i) == s[i + 1]

Min2(a, b) == IF a < b THEN a ELSE b

\* fn hash_fn(a: u8, b: u8) -> NeedleIdx { ((a as NeedleIdx) << 5) + (b as NeedleIdx) }
hash_fn(a, b) == (((a * 32) % U16Mod) + b) % U16Mod

\* ((p[0] as u16) << 8) + (p[1] as u16)
prefix_of(a, b) == (((a * 256) % U16Mod) + b) % U16Mod

\* needles.iter().map(|p| p.len()).min()
RECURSIVE min_len(_)
min_len(needles) ==
    IF Len(needles) = 1 THEN Len(needles[1])
    ELSE Min2(Len(needles[1]), min_len(Tail(needles)))

\* The two panics on the number of needles and the two on the shortest length,
\* in the order new makes them; n is needles.len(), m the shortest length
\* (never read when n = 0, as in the source).
new_check(n, m) ==
    IF n = 0 THEN "panic: empty set of needles"
    ELSE IF n > NeedleIdxMax THEN "panic: too many needles"
    ELSE IF m < 2 THEN "panic: needle shorter than 2"
    ELSE IF m > NByteIdxMax THEN "panic: needles too long"
    ELSE "ok"

\* let h = |p: &[u8]| hash_fn(p[(pat_len-2) as usize], p[(pat_len-1) as usize])
crit_hash(p, pat_len) == hash_fn(At(p, pat_len - 2), At(p, pat_len - 1))

\* needles.into_iter().enumerate(): the pairs (original index, bytes).
enumerate(needles) == [i \in 1..Len(needles) |-> <<i - 1, needles[i]>>]

\* The comparison of sort_by: h(&p.1).cmp(&h(&q.1)) is Less.
sort_less(p, q, pat_len) == crit_hash(p[2], pat_len) < crit_hash(q[2], pat_len)

\* sort_by is a stable sort: x goes behind every entry that is not greater.
RECURSIVE insert_sorted(_, _, _)
insert_sorted(s, x, pat_len) ==
    IF s = <<>> THEN <<x>>
    ELSE IF sort_less(x, Head(s), pat_len) THEN <<x>> \o s
    ELSE <<Head(s)>> \o insert_sorted(Tail(s), x, pat_len)

RECURSIVE sort_by(_, _)
sort_by(s, pat_len) ==
    IF s = <<>> THEN <<>>
    ELSE insert_sorted(sort_by(SubSeq(s, 1, Len(s) - 1), pat_len), s[Len(s)], pat_len)

\* A slip: the entry after the bucket is written for every needle.
hash_unset_always(v) == TRUE

\* if hash[h_idx + 1] == 0: the entry after the bucket has not been written.
hash_unset(v) == v = 0

\* The reverse pass that fills hash: k entries are still to visit, the next
\* one is p_idx = k - 1.
RECURSIVE hash_pass(_, _, _, _)
hash_pass(hash, needles, pat_len, k) ==
    IF k = 0 THEN hash
    ELSE LET p_idx == k - 1
             h_idx == crit_hash(needles[k][2], pat_len)
             h1 == [hash EXCEPT ![h_idx] = p_idx % U16Mod]
             h2 == IF hash_unset(h1[h_idx + 1])
                   THEN [h1 EXCEPT ![h_idx + 1] = (p_idx + 1) % U16Mod]
                   ELSE h1
         IN  hash_pass(h2, needles, pat_len, k - 1)

\* A slip: the default shift one too small.
shift_default_low(pat_len) == pat_len - 2

\* vec![pat_len - 1; HASH_MAX + 1]: the shift of a pair no needle holds.
shift_default(pat_len) == pat_len - 1

\* pat_len - p_pos - 2: how far the pair at p_pos is from the window's end.
shift_dist(pat_len, p_pos) == pat_len - p_pos - 2

\* for p_pos in 0..(pat_len - 1), for one needle p, from p_pos on.
RECURSIVE shift_needle(_, _, _, _)
shift_needle(shift, p, pat_len, p_pos) ==
    IF p_pos >= pat_len - 1 THEN shift
    ELSE LET h == hash_fn(At(p, p_pos), At(p, p_pos + 1))
         IN  shift_needle([shift EXCEPT ![h] = Min2(shift[h], shift_dist(pat_len, p_pos))],
                          p, pat_len, p_pos + 1)

\* for &(_, ref p) in &needles, from the k-th entry on.
RECURSIVE shift_pass(_, _, _, _)
shift_pass(shift, needles, pat_len, k) ==
    IF k > Len(needles) THEN shift
    ELSE shift_pass(shift_needle(shift, needles[k][2], pat_len, 0), needles, pat_len, k + 1)

\* TwoByteWM::new for a needle set that passes new_check.
new(needles_arg) ==
    LET pat_len == min_len(needles_arg)
        needles == sort_by(enumerate(needles_arg), pat_len)
        prefix  == [i \in 1..Len(needles) |->
                       prefix_of(At(needles[i][2], 0), At(needles[i][2], 1))]
        hash    == hash_pass([i \in 0..(HASH_MAX + 1) |-> 0], needles, pat_len, Len(needles))
        shift   == shift_pass([i \in 0..HASH_MAX |-> shift_default(pat_len)],
                              needles, pat_len, 1)
    IN  [needles |-> needles, prefix |-> prefix, pat_len |-> pat_len,
         shift |-> shift, hash |-> hash]

\* A slip: the index into the sorted list reported as the caller's index.
pat_idx_table(w, p_idx) == p_idx

\* fn pat(&self, p_idx) and fn pat_idx(&self, p_idx)
pat(w, p_idx) == At(w.needles, p_idx)[2]
pat_idx(w, p_idx) == At(w.needles, p_idx)[1]

\* ------------------------------------------------------------------ search

\* haystack[(start)..].starts_with(&p)
starts_with(hay, start, p) ==
    /\ Len(p) <= Len(hay) - start
    /\ \A i \in 0..(Len(p) - 1) : At(hay, start + i) = At(p, i)

\* A slip: a later needle of the same length replaces the one found.
not_longer(p, q) == Len(p) <= Len(q)

\* if p.len() < q.len() { p_idx } else { q_idx }: p replaces the needle found so far.
shorter(p, q) == Len(p) < Len(q)

\* The for loop over p_idx in self.hash[h]..self.hash[h+1], from p_idx on.
\* found is -1 for None and a needle index for Some; the result -2 stands for
\* the panic of an index past the end of self.prefix.
RECURSIVE scan_bucket(_, _, _, _, _, _, _)
scan_bucket(w, hay, start, prefix, p_idx, hi, found) ==
    IF p_idx >= hi THEN found
    ELSE IF p_idx >= Len(w.prefix) THEN -2
    ELSE LET p == pat(w, p_idx)
             hit == At(w.prefix, p_idx) = prefix /\ starts_with(hay, start, p)
             nxt == IF ~hit THEN found
                    ELSE IF found = -1 THEN p_idx
                    ELSE IF shorter(p, pat(w, found)) THEN p_idx ELSE found
         IN  scan_bucket(w, hay, start, prefix, p_idx + 1, hi, nxt)

\* haystack.len() - 1 with an empty haystack: the subtraction underflows.
sub_overflows(len) == len = 0

\* while pos <= haystack.len() - 1.  A build with overflow checks panics on
\* the underflow; one without wraps to usize::MAX, which no pos exceeds.
in_loop(p, len) == IF sub_overflows(len) THEN TRUE ELSE p <= len - 1

\* let h = hash_fn(haystack[pos - 1], haystack[pos]) as usize
window_hash(hay, p) == hash_fn(At(hay, p - 1), At(hay, p))

\* The candidate found at pos when shift is 0: -1, -2 or a needle index.
verify(w, hay, p) ==
    LET h == window_hash(hay, p)
        start == p - w.pat_len + 1
        prefix == prefix_of(At(hay, start), At(hay, start + 1))
    IN  scan_bucket(w, hay, start, prefix, w.hash[h], w.hash[h + 1], -1)

\* Whether find_from panics at pos.  With an empty haystack it does in every
\* build: a build with overflow checks panics on haystack.len() - 1, and one
\* without enters the loop and indexes haystack[pos - 1] out of range.
\* Otherwise it panics on an index outside the haystack or the needle list.
find_from_panics(w, hay, p) ==
    IF sub_overflows(Len(hay)) THEN TRUE
    ELSE IF ~in_loop(p, Len(hay)) THEN FALSE
    ELSE IF p - 1 < 0 \/ p >= Len(hay) THEN TRUE
    ELSE IF w.shift[window_hash(hay, p)] # 0 THEN FALSE
    ELSE IF p - w.pat_len + 1 < 0 THEN TRUE
    ELSE verify(w, hay, p) = -2

\* Some(Match { start, end, pat_idx }) for the needle found at pos.
match_at(w, p, p_idx) ==
    [start   |-> p - w.pat_len + 1,
     end     |-> p - w.pat_len + 1 + Len(pat(w, p_idx)),
     pat_idx |-> pat_idx(w, p_idx)]

\* Slips: pos left where it is after a failed verification; a skip one too
\* far; the cursor moved to the match's start.
advance_none(p) == p
skip_far(p, sh) == p + sh + 1
next_cur_pos_start(m) == m.start

\* pos += 1 after a verification that found no needle.
advance(p) == p + 1

\* pos += shift
skip(p, sh) == p + sh

\* Matches::next: self.cur_pos = m.end
next_cur_pos(m) == m.end

\* ------------------------------------------------------------------- state

VARIABLES
    needles_in,  \* the caller's needles, in the caller's order
    wm,          \* the TwoByteWM built from them
    haystack,    \* the haystack of the search
    iterating,   \* whether find has made a Matches
    cur_pos,     \* Matches.cur_pos
    caller,      \* who runs find_from: "none", "find_from" (the caller) or "next"
    offset,      \* find_from's argument
    pos,         \* find_from's local pos
    pc,          \* "idle", "loop" (inside find_from), "returned" or "panic"
    ret,         \* what the last call returned
    yielded,     \* the matches the Matches has yielded so far
    iters,       \* the loop iterations of the running call
    bucket,      \* the h whose bucket the running call iterated last, or -1
    shape,       \* the needle set handed to new, by its sizes
    built        \* what new did with it

vars == <<needles_in, wm, haystack, iterating, cur_pos, caller, offset, pos, pc,
          ret, yielded, iters, bucket, shape, built>>

NoMatch == [start |-> 0, end |-> 0, pat_idx |-> 0]
Pending == [tag |-> "pending", m |-> NoMatch]
RetNone == [tag |-> "none", m |-> NoMatch]
RetPanic == [tag |-> "panic", m |-> NoMatch]
RetSome(m) == [tag |-> "some", m |-> m]

\* ------------------------------------------------------------------ inputs

Strings(lo, hi) == UNION {[1..n -> Bytes] : n \in lo..hi}

\* The sequences of needles of 2..MaxNeedleLen bytes with at most budget bytes
\* together.
RECURSIVE NeedleSeqs(_)
NeedleSeqs(budget) ==
    {<<>>} \cup
    UNION {{<<p>> \o rest : rest \in NeedleSeqs(budget - Len(p))} :
              p \in {q \in Strings(2, MaxNeedleLen) : Len(q) <= budget}}

NeedleSets == NeedleSeqs(MaxNeedleBytes) \ {<<>>}

Haystacks == Strings(0, MaxHayLen)

RECURSIVE max_len(_)
max_len(needles) ==
    IF Len(needles) = 1 THEN Len(needles[1])
    ELSE LET m == max_len(Tail(needles))
         IN  IF Len(needles[1]) > m THEN Len(needles[1]) ELSE m

ShapeOf(needles) ==
    [count |-> Len(needles), min_len |-> min_len(needles), max_len |-> max_len(needles)]

\* The sizes around the limits of new: of the number of needles and of their
\* lengths.
EdgeSizes == {0, 1, 2, 3, NeedleIdxMax - 1, NeedleIdxMax, NeedleIdxMax + 1, NeedleIdxMax + 2}

Shapes ==
    {[count |-> 0, min_len |-> 0, max_len |-> 0]} \cup
    {s \in [count : EdgeSizes \ {0}, min_len : EdgeSizes, max_len : EdgeSizes] :
        /\ s.min_len <= s.max_len
        /\ s.count = 1 => s.min_len = s.max_len}

\* ---------------------------------------------------------------- actions

\* The state after TwoByteWM::new(needles_in) has built the table.
Init ==
    /\ needles_in \in NeedleSets
    /\ shape = ShapeOf(needles_in)
    /\ built = new_check(shape.count, shape.min_len)
    /\ built = "ok"
    /\ wm = new(needles_in)
    /\ haystack \in Haystacks
    /\ iterating = FALSE
    /\ cur_pos = 0
    /\ caller = "none"
    /\ offset = 0
    /\ pos = 0
    /\ pc = "idle"
    /\ ret = Pending
    /\ yielded = <<>>
    /\ iters = 0
    /\ bucket = -1

Callable == pc \in {"idle", "returned"}

\* TwoByteWM::find: a fresh Matches with cur_pos 0.
Find ==
    /\ Callable
    /\ iterating' = TRUE
    /\ cur_pos' = 0
    /\ yielded' = <<>>
    /\ caller' = "none"
    /\ offset' = 0
    /\ pos' = 0
    /\ pc' = "idle"
    /\ ret' = Pending
    /\ iters' = 0
    /\ bucket' = -1
    /\ UNCHANGED <<needles_in, wm, haystack, shape, built>>

\* The entry of find_from(haystack, off): let mut pos = offset + pat_len - 1.
Enter(who, off) ==
    /\ caller' = who
    /\ offset' = off
    /\ pos' = off + wm.pat_len - 1
    /\ pc' = "loop"
    /\ ret' = Pending
    /\ iters' = 0
    /\ bucket' = -1
    /\ UNCHANGED <<needles_in, wm, haystack, iterating, cur_pos, yielded, shape, built>>

\* A caller's own find_from(haystack, off), on a table no Matches borrows yet.
FindFromCall ==
    /\ Callable
    /\ ~iterating
    /\ \E off \in 0..(Len(haystack) + 1) : Enter("find_from", off)

\* Matches::next: find_from(self.haystack, self.cur_pos).
NextCall ==
    /\ Callable
    /\ iterating
    /\ Enter("next", cur_pos)

Running == pc = "loop" /\ ~find_from_panics(wm, haystack, pos)

\* The loop's iteration with shift > 0.
LoopShift ==
    /\ Running
    /\ in_loop(pos, Len(haystack))
    /\ wm.shift[window_hash(haystack, pos)] > 0
    /\ pos' = skip(pos, wm.shift[window_hash(haystack, pos)])
    /\ iters' = iters + 1
    /\ UNCHANGED <<needles_in, wm, haystack, iterating, cur_pos, caller, offset, pc,
                   ret, yielded, bucket, shape, built>>

\* The iteration with shift = 0 in which no needle of the bucket matches.
LoopMiss ==
    /\ Running
    /\ in_loop(pos, Len(haystack))
    /\ wm.shift[window_hash(haystack, pos)] = 0
    /\ verify(wm, haystack, pos) = -1
    /\ pos' = advance(pos)
    /\ iters' = iters + 1
    /\ bucket' = window_hash(haystack, pos)
    /\ UNCHANGED <<needles_in, wm, haystack, iterating, cur_pos, caller, offset, pc,
                   ret, yielded, shape, built>>

\* The iteration with shift = 0 that finds a needle: find_from returns Some,
\* and Matches::next moves cur_pos to the match's end.
LoopFound ==
    /\ Running
    /\ in_loop(pos, Len(haystack))
    /\ wm.shift[window_hash(haystack, pos)] = 0
    /\ verify(wm, haystack, pos) >= 0
    /\ LET m == match_at(wm, pos, verify(wm, haystack, pos))
       IN  /\ ret' = RetSome(m)
           /\ IF caller = "next"
              THEN cur_pos' = next_cur_pos(m) /\ yielded' = Append(yielded, m)
              ELSE UNCHANGED <<cur_pos, yielded>>
    /\ pc' = "returned"
    /\ iters' = iters + 1
    /\ bucket' = window_hash(haystack, pos)
    /\ UNCHANGED <<needles_in, wm, haystack, iterating, caller, offset, pos, shape, built>>

\* pos has left the haystack: find_from returns None.
LoopExit ==
    /\ Running
    /\ ~in_loop(pos, Len(haystack))
    /\ ret' = RetNone
    /\ pc' = "returned"
    /\ UNCHANGED <<needles_in, wm, haystack, iterating, cur_pos, caller, offset, pos,
                   yielded, iters, bucket, shape, built>>

\* find_from panics: nothing is returned and the call unwinds.
LoopPanic ==
    /\ pc = "loop"
    /\ find_from_panics(wm, haystack, pos)
    /\ ret' = RetPanic
    /\ pc' = "panic"
    /\ UNCHANGED <<needles_in, wm, haystack, iterating, cur_pos, caller, offset, pos,
                   yielded, iters, bucket, shape, built>>

Next ==
    \/ Find
    \/ FindFromCall
    \/ NextCall
    \/ LoopShift
    \/ LoopMiss
    \/ LoopFound
    \/ LoopExit
    \/ LoopPanic

Spec == Init /\ [][Next]_vars

\* ------------------------------------------------- construction by sizes

\* TwoByteWM::new seen by the sizes it checks: the number of needles and their
\* shortest length (the longest is never looked at).
InitNew ==
    /\ shape \in Shapes
    /\ built = "pending"
    /\ needles_in = <<>>
    /\ wm = [needles |-> <<>>, prefix |-> <<>>, pat_len |-> 0, shift |-> <<>>, hash |-> <<>>]
    /\ haystack = <<>>
    /\ iterating = FALSE
    /\ cur_pos = 0
    /\ caller = "none"
    /\ offset = 0
    /\ pos = 0
    /\ pc = "idle"
    /\ ret = Pending
    /\ yielded = <<>>
    /\ iters = 0
    /\ bucket = -1

NewCall ==
    /\ built = "pending"
    /\ built' = new_check(shape.count, shape.min_len)
    /\ UNCHANGED <<needles_in, wm, haystack, iterating, cur_pos, caller, offset, pos, pc,
                   ret, yielded, iters, bucket, shape>>

NextNew == NewCall

SpecNew == InitNew /\ [][NextNew]_vars

\* A search never stops inside the loop: the running call always takes its
\* next step.
FairSpec == Spec /\ WF_vars(LoopShift \/ LoopMiss \/ LoopFound \/ LoopExit \/ LoopPanic)

\* ------------------------------------------------------------ references

\* The documented limit of new: at most 65536 needles of at most 65536 bytes.
DocumentedMax == 65536

\* Needle p occurs in hay at start s.
OccursAt(p, hay, s) ==
    /\ s + Len(p) <= Len(hay)
    /\ SubSeq(hay, s + 1, s + Len(p)) = p

\* The original indices of the needles that occur at start s.
NeedlesAt(s) == {k \in 0..(Len(needles_in) - 1) : OccursAt(At(needles_in, k), haystack, s)}

\* The starts >= from at which some needle occurs.
OccStarts(from) == {s \in from..Len(haystack) : NeedlesAt(s) # {}}

SetMin(S) == CHOOSE x \in S : \A y \in S : x <= y

Finished == pc \in {"returned", "panic"}

\* The scan that reports, from a cursor, the occurrence with the smallest
\* start, of the shortest needle there and of the smallest original index among
\* equal needles, and goes on from its end.
RefPick(s) ==
    LET ks == NeedlesAt(s)
        best == {k \in ks : \A j \in ks : Len(At(needles_in, k)) <= Len(At(needles_in, j))}
        k == SetMin(best)
    IN  [start |-> s, end |-> s + Len(At(needles_in, k)), pat_idx |-> k]

RECURSIVE RefSeq(_)
RefSeq(from) ==
    IF OccStarts(from) = {} THEN <<>>
    ELSE LET m == RefPick(SetMin(OccStarts(from)))
         IN  <<m>> \o RefSeq(m.end)

\* The automaton that reads the haystack left to right and reports, at the
\* first position where a needle that starts at or after the cursor ends, the
\* shortest needle ending there, and goes on from that end.
EndsAt(from, e) ==
    {k \in 0..(Len(needles_in) - 1) :
        /\ e - Len(At(needles_in, k)) >= from
        /\ OccursAt(At(needles_in, k), haystack, e - Len(At(needles_in, k)))}

RECURSIVE AutomatonSeq(_)
AutomatonSeq(from) ==
    LET ends == {e \in from..Len(haystack) : EndsAt(from, e) # {}}
    IN  IF ends = {} THEN <<>>
        ELSE LET e == SetMin(ends)
                 ks == EndsAt(from, e)
                 best == {k \in ks :
                             \A j \in ks : Len(At(needles_in, k)) <= Len(At(needles_in, j))}
                 k == SetMin(best)
             IN  <<[start |-> e - Len(At(needles_in, k)), end |-> e, pat_idx |-> k]>>
                 \o AutomatonSeq(e)

IsPrefix(s, t) == Len(s) <= Len(t) /\ SubSeq(t, 1, Len(s)) = s

\* hash[h]..hash[h+1] as a set of needle indices, and the needles of the
\* sorted list whose critical bytes hash to h.
Range(w, h) == w.hash[h]..(w.hash[h + 1] - 1)
HashedTo(w, h) == {i \in 0..(Len(w.needles) - 1) : crit_hash(pat(w, i), w.pat_len) = h}

\* A match is an occurrence of the needle the caller gave at pat_idx.
IsOccurrence(m, from) ==
    /\ from <= m.start
    /\ m.end <= Len(haystack)
    /\ m.pat_idx \in 0..(Len(needles_in) - 1)
    /\ m.end - m.start = Len(At(needles_in, m.pat_idx))
    /\ m.end - m.start >= 2
    /\ SubSeq(haystack, m.start + 1, m.end) = At(needles_in, m.pat_idx)

\* The place in the sorted list of the needle with original index k.
TableIdx(k) == CHOOSE i \in 0..(Len(wm.needles) - 1) : pat_idx(wm, i) = k

IterEnded == caller = "next" /\ pc = "returned" /\ ret.tag = "none"

\* ------------------------------------------------------------------ claims

\* C1: no occurrence is skipped.  Every finished find_from(haystack, offset)
\* has returned none if and only if no needle occurs at a start >= offset, and
\* a match it returns starts at the smallest such start.
C1_NoOccurrenceSkipped ==
    Finished =>
        /\ ret.tag = "none" <=> OccStarts(offset) = {}
        /\ ret.tag = "some" =>
              /\ ret.m.start \in OccStarts(offset)
              /\ \A s \in OccStarts(offset) : ret.m.start <= s

\* The same for the calls that return: what find_from returns, none or a match,
\* is the first occurrence at or after offset.
ReturnedFirstOccurrence ==
    pc = "returned" =>
        /\ ret.tag = "none" <=> OccStarts(offset) = {}
        /\ ret.tag = "some" => ret.m.start = SetMin(OccStarts(offset))

\* C2: every match returned by find_from or yielded by find is an occurrence,
\* at or after the offset and inside the haystack, of the needle at pat_idx of
\* the caller's sequence, at least 2 bytes long.
C2_RealOccurrence ==
    /\ ret.tag = "some" => IsOccurrence(ret.m, offset)
    /\ \A i \in 1..Len(yielded) : IsOccurrence(yielded[i], 0)

\* A match of a needle that the sort moved: its place in the table is not the
\* caller's index.
C2_Witness ==
    /\ ret.tag = "some"
    /\ TableIdx(ret.m.pat_idx) # ret.m.pat_idx
    /\ offset > 0

\* C3, as stated: when find has ended, its matches are those of the automaton
\* that reports the shortest needle at the first ending position.
C3_EqualsAutomaton == IterEnded => yielded = AutomatonSeq(0)

\* C3, amended: the matches find yields are, in order, those of the scan that
\* reports the occurrence with the smallest start (the shortest needle there,
\* the smallest original index among equal needles) and goes on from its end;
\* when find ends with none it has yielded all of them.
C3_EqualsLeftmostShortest ==
    iterating =>
        /\ IsPrefix(yielded, RefSeq(0))
        /\ IterEnded => yielded = RefSeq(0)

\* find has ended after two matches or more, at a start where two needles occur.
C3_Witness ==
    /\ IterEnded
    /\ Len(yielded) >= 2
    /\ \E i \in 1..Len(yielded) : Cardinality(NeedlesAt(yielded[i].start)) >= 2

\* C4: the matches of one find are ordered and do not overlap: each starts at
\* or after the end of the one before, starts and ends increase strictly, and
\* cur_pos is 0 and then the end of the last match yielded.
C4_Ordered ==
    /\ \A i \in 1..(Len(yielded) - 1) :
          /\ yielded[i + 1].start >= yielded[i].end
          /\ yielded[i + 1].start > yielded[i].start
          /\ yielded[i + 1].end > yielded[i].end
    /\ cur_pos = IF yielded = <<>> THEN 0 ELSE yielded[Len(yielded)].end
    /\ \A i \in 1..Len(yielded) : yielded[i].end <= cur_pos

\* Two matches yielded, of two different needles.
C4_Witness ==
    /\ Len(yielded) >= 2
    /\ yielded[1].pat_idx # yielded[2].pat_idx

\* C5: new fails exactly when the set is empty, has more than 65536 needles,
\* or holds a needle shorter than 2 or longer than 65536 bytes.
C5_FailsExactlyOnLimits ==
    built # "pending" =>
        (built # "ok" <=>
            \/ shape.count = 0
            \/ shape.count > DocumentedMax
            \/ shape.min_len < 2
            \/ shape.max_len > DocumentedMax)

\* C6: on a haystack shorter than the shortest needle, the empty one included,
\* find_from returns none for every offset, without a panic.
C6_ShortHaystackNone ==
    (Finished /\ Len(haystack) < wm.pat_len) => ret.tag = "none"

\* The same for the haystacks that are short but not empty.
ShortNonEmptyHaystackNone ==
    (Finished /\ Len(haystack) < wm.pat_len /\ haystack # <<>>) => ret.tag = "none"

\* C7, as stated: for every h in 0..HASH_MAX the range hash[h]..hash[h+1] holds
\* exactly the needles whose critical bytes hash to h (none, when no needle
\* hashes to h).
C7_EveryRangeExact ==
    \A h \in 0..HASH_MAX : Range(wm, h) = HashedTo(wm, h)

\* C7, amended: for every h in 0..HASH_MAX that at least one needle hashes to,
\* the range hash[h]..hash[h+1] holds exactly the needles whose critical bytes
\* hash to h; the sorted list is in increasing order of that hash.
C7_NonEmptyRangeExact ==
    /\ DOMAIN wm.hash = 0..(HASH_MAX + 1)
    /\ \A h \in 0..HASH_MAX : HashedTo(wm, h) # {} => Range(wm, h) = HashedTo(wm, h)
    /\ \A i \in 0..(Len(wm.needles) - 2) :
          crit_hash(pat(wm, i), wm.pat_len) <= crit_hash(pat(wm, i + 1), wm.pat_len)

\* Two buckets, and an h no needle hashes to whose range is not empty.
C7_Witness ==
    /\ Cardinality({h \in 0..HASH_MAX : HashedTo(wm, h) # {}}) >= 2
    /\ \E h \in 0..HASH_MAX : HashedTo(wm, h) = {} /\ Range(wm, h) # {}

\* C8: of the needles that occur at the start find_from returns, the match is
\* for one with the fewest bytes, and among those of that length for the first
\* in the sorted list, which is the one with the smallest original index.
C8_ShortestThenFirst ==
    ret.tag = "some" =>
        \A k \in NeedlesAt(ret.m.start) :
            /\ ret.m.end - ret.m.start <= Len(At(needles_in, k))
            /\ Len(At(needles_in, k)) = ret.m.end - ret.m.start =>
                  /\ TableIdx(ret.m.pat_idx) <= TableIdx(k)
                  /\ ret.m.pat_idx <= k

\* A match at a start where a second needle of the same length occurs.
C8_Witness ==
    /\ ret.tag = "some"
    /\ \E k \in NeedlesAt(ret.m.start) :
          k # ret.m.pat_idx /\ Len(At(needles_in, k)) = ret.m.end - ret.m.start

\* A match at a start where a longer needle occurs too.
ShorterChosen ==
    /\ ret.tag = "some"
    /\ \E k \in NeedlesAt(ret.m.start) : Len(At(needles_in, k)) > ret.m.end - ret.m.start

\* C9: every search terminates.  Each iteration of find_from's loop that goes
\* on moves pos forward, a call makes at most as many iterations as the
\* haystack has bytes, each match find yields moves cur_pos forward, find
\* yields at most as many matches as the haystack has bytes, and a call that
\* is in the loop leaves it.
C9_Terminates ==
    /\ [][/\ (pc = "loop" /\ pc' = "loop") => pos' > pos
          /\ (pc = "loop" /\ caller = "next" /\ ret'.tag = "some") => cur_pos' > cur_pos]_vars
    /\ [](iters <= Len(haystack) /\ Len(yielded) <= Len(haystack))
    /\ ((pc = "loop") ~> (pc # "loop"))

\* A call of Matches::next has returned a match in its third iteration.
C9_Witness ==
    /\ pc = "returned"
    /\ caller = "next"
    /\ iters >= 3
    /\ ret.tag = "some"

\* C10: shift[h] = 0 exactly for the h that some needle's critical bytes hash
\* to, and the bucket find_from iterates is that of such an h: its range holds
\* all and only the needles that hash to h and ends within the needle list.
C10_ScansOnlyRealBuckets ==
    /\ \A h \in 0..HASH_MAX : wm.shift[h] = 0 <=> HashedTo(wm, h) # {}
    /\ bucket # -1 =>
          /\ HashedTo(wm, bucket) # {}
          /\ Range(wm, bucket) = HashedTo(wm, bucket)
          /\ wm.hash[bucket + 1] <= Len(wm.needles)

\* find_from has iterated a bucket of two needles; and it has iterated a
\* bucket of a table in which an h that no needle hashes to has a range that
\* is not empty.
C10_Witness ==
    /\ bucket # -1
    /\ Cardinality(HashedTo(wm, bucket)) >= 2

PhantomRangeNotScanned ==
    /\ bucket # -1
    /\ \E h \in 0..HASH_MAX : HashedTo(wm, h) = {} /\ Range(wm, h) # {}

====
